---------------------------- MODULE Spec2Model ----------------------------
(***************************************************************************)
(* Model of src/src/root/utils.py: the entity model (Player, Game and the  *)
(* derived views of a Game) and the aggregation functions that turn a list *)
(* of games into per-name and per-faction counts and win rates.            *)
(*                                                                         *)
(* Every function of the module is pure.  The state is the input game list *)
(* together with the call made on it and what that call produced: a        *)
(* returned value or a raised exception.                                   *)
(***************************************************************************)
EXTENDS Integers, Sequences, FiniteSets

VARIABLES games, called, arg, outcome

vars == <<games, called, arg, outcome>>

\* What the call produced.  The outcome is filed under the name of the
\* property or function called, results of different functions being values
\* of different types.
ret == outcome[called]

---------------------------------------------------------------------------
(* Bounds of the model *)

\* Number of dataclass instances (Game objects plus Player objects) from
\* which the input game list is built.
MaxObjects == 5

\* Number of players of one game.
MaxPlayers == 2

---------------------------------------------------------------------------
(* Values *)

\* NameType and FactionType are closed rosters of eight strings each.
NameType == {"Agrim", "Munira", "Tobi", "Alina", "Tobias Bl.", "Wissal",
             "Maxi", "Georgios"}

FactionType == {"Cats", "Birds", "Vagabond", "Woodland", "Crows", "Duchy",
                "Riverfolk", "Lizards"}

\* The part of each roster the inputs are drawn from.
Names == {"Agrim", "Munira"}

Factions == {"Cats", "Birds"}

\* game_date is stored and read by no function of the module.
Dates == {"2024-01-01"}

Player == [name : Names, faction : Factions, is_winner : BOOLEAN]

\* The games with exactly n players.
GamesOfSize(n) ==
    {[game_date |-> d, players |-> ps] : d \in Dates, ps \in [1..n -> Player]}

\* The game lists built from at most b Game and Player objects, no game of
\* more than MaxPlayers players.
RECURSIVE GameListsWithin(_)
GameListsWithin(b) ==
    IF b = 0 THEN {<<>>}
    ELSE {<<>>} \cup
         UNION {{<<g>> \o rest : g \in GamesOfSize(n),
                                 rest \in GameListsWithin(b - 1 - n)}
                : n \in {m \in 0..MaxPlayers : m <= b - 1}}

\* The outcome of a call: a returned value or a raised exception.
Ok(v) == [ok |-> TRUE, val |-> v]

Raise(e) == [ok |-> FALSE, exc |-> e]

NotCalled == [ok |-> FALSE, exc |-> "NotCalled"]

---------------------------------------------------------------------------
(* Python built-ins used by the code *)

\* sum(1 for x in xs if cond(x)), given the sequence of the conditions' values.
RECURSIVE sum1(_)
sum1(flags) ==
    IF flags = <<>> THEN 0
    ELSE (IF Head(flags) THEN 1 ELSE 0) + sum1(Tail(flags))

\* x in xs, for a list xs.
In(x, xs) == \E j \in 1..Len(xs) : xs[j] = x

RECURSIVE Gcd(_, _)
Gcd(a, b) == IF b = 0 THEN a ELSE Gcd(b, a % b)

\* a // b where a / b was meant: the quotient rounded down.
FloorDiv(a, b) ==
    IF b = 0 THEN Raise("ZeroDivisionError")
    ELSE Ok([num |-> a \div b, den |-> 1])

\* a / b on ints: the quotient as a float, here the fraction in lowest terms
\* (two quotients are the same float iff they are the same fraction, for
\* operands this small), or ZeroDivisionError.
TrueDiv(a, b) ==
    IF b = 0 THEN Raise("ZeroDivisionError")
    ELSE Ok([num |-> a \div Gcd(a, b), den |-> b \div Gcd(a, b)])

\* list(s) for a set s: its elements, each once, in an order the language
\* does not fix.
ListsOfSet(s) ==
    {xs \in [1..Cardinality(s) -> s] : \A x \in s : In(x, xs)}

---------------------------------------------------------------------------
(* Entity model: the derived views of a Game *)

Game_names(game) ==
    [j \in 1..Len(game.players) |-> game.players[j].name]

Game_factions(game) ==
    [j \in 1..Len(game.players) |-> game.players[j].faction]

\* Game.winner taking the first player of a game that has a winner, as if the
\* winner were always listed first.
Game_winner_first_slot(game) ==
    IF \A j \in 1..Len(game.players) : ~game.players[j].is_winner
    THEN Raise("StopIteration")
    ELSE Ok(game.players[1])

\* Game.winner with the filter negated: the first player not flagged.
Game_winner_negated(game) ==
    LET others == {j \in 1..Len(game.players) : ~game.players[j].is_winner}
    IN  IF others = {} THEN Raise("StopIteration")
        ELSE Ok(game.players[CHOOSE j \in others : \A k \in others : j <= k])

\* Game.winner keeping the last winner-flagged player instead of the first.
Game_winner_last(game) ==
    LET flagged == {j \in 1..Len(game.players) : game.players[j].is_winner}
    IN  IF flagged = {} THEN Raise("StopIteration")
        ELSE Ok(game.players[CHOOSE j \in flagged : \A k \in flagged : j >= k])

\* next(player for player in self.players if player.is_winner): the first
\* player the generator yields, StopIteration when it yields none.
Game_winner(game) ==
    LET flagged == {j \in 1..Len(game.players) : game.players[j].is_winner}
    IN  IF flagged = {} THEN Raise("StopIteration")
        ELSE Ok(game.players[CHOOSE j \in flagged : \A k \in flagged : j <= k])

Is_looser(player) == ~player.is_winner

Game_looser(game) == SelectSeq(game.players, Is_looser)

Game_winner_name(game) ==
    LET w == Game_winner(game)
    IN  IF w.ok THEN Ok(w.val.name) ELSE w

Game_looser_name(game) ==
    LET ls == Game_looser(game)
    IN  [j \in 1..Len(ls) |-> ls[j].name]

Game_winner_faction(game) ==
    LET w == Game_winner(game)
    IN  IF w.ok THEN Ok(w.val.faction) ELSE w

Game_looser_faction(game) ==
    LET ls == Game_looser(game)
    IN  [j \in 1..Len(ls) |-> ls[j].faction]

---------------------------------------------------------------------------
(* Aggregation functions *)

\* get_names answering with a fixed roster instead of the names of the input.
get_names_roster(gs) == Names

\* The set built by get_names before it is turned into a list.
get_names(gs) ==
    UNION {{gs[i].players[j].name : j \in 1..Len(gs[i].players)}
           : i \in 1..Len(gs)}

get_factions(gs) ==
    UNION {{gs[i].players[j].faction : j \in 1..Len(gs[i].players)}
           : i \in 1..Len(gs)}

\* get_num_wins where a StopIteration raised inside the generator expression
\* ends the generator silently (the language's behaviour before PEP 479): the
\* wins counted up to the first game without a winner.
RECURSIVE wins_until_stop(_, _)
wins_until_stop(gs, name) ==
    IF gs = <<>> THEN 0
    ELSE LET w == Game_winner_name(Head(gs))
         IN  IF ~w.ok THEN 0
             ELSE (IF w.val = name THEN 1 ELSE 0) + wins_until_stop(Tail(gs), name)

get_num_wins_swallow(gs, name) == Ok(wins_until_stop(gs, name))

\* get_num_wins counting every winner-flagged slot that holds the name
\* instead of every game won.
get_num_wins_per_slot(gs, name) ==
    IF \E i \in 1..Len(gs) : ~Game_winner_name(gs[i]).ok
    THEN Raise("RuntimeError")
    ELSE Ok(Cardinality({<<i, j>> \in (1..Len(gs)) \X (1..MaxObjects) :
                           /\ j <= Len(gs[i].players)
                           /\ gs[i].players[j].is_winner
                           /\ gs[i].players[j].name = name}))

\* A StopIteration raised by game.winner inside the generator expression
\* leaves the generator as RuntimeError (PEP 479, the language's behaviour
\* from 3.7 on, which the module's __future__ import requires).
get_num_wins(gs, name) ==
    LET ws == [i \in 1..Len(gs) |-> Game_winner_name(gs[i])]
    IN  IF \E i \in 1..Len(gs) : ~ws[i].ok THEN Raise("RuntimeError")
        ELSE Ok(sum1([i \in 1..Len(gs) |-> ws[i].val = name]))

\* The generator expression of get_faction_win_count_dict, for one faction.
get_num_faction_wins(gs, faction) ==
    LET ws == [i \in 1..Len(gs) |-> Game_winner_faction(gs[i])]
    IN  IF \E i \in 1..Len(gs) : ~ws[i].ok THEN Raise("RuntimeError")
        ELSE Ok(sum1([i \in 1..Len(gs) |-> ws[i].val = faction]))

\* A dict comprehension that skips the keys whose value raises.
DictOf_partial(rs) ==
    LET good == {k \in DOMAIN rs : rs[k].ok}
    IN  Ok([k \in good |-> rs[k].val])

\* A dict comprehension {k: f(k) for k in keys}: the dict, or the exception
\* of the first f(k) that raises.
DictOf(rs) ==
    IF \E k \in DOMAIN rs : ~rs[k].ok
    THEN rs[CHOOSE k \in DOMAIN rs : ~rs[k].ok]
    ELSE Ok([k \in DOMAIN rs |-> rs[k].val])

\* get_name_game_count_dict counting the games a name lost.
get_name_game_count_dict_loosers(gs) ==
    DictOf([name \in get_names(gs) |->
              Ok(sum1([i \in 1..Len(gs) |-> In(name, Game_looser_name(gs[i]))]))])

\* get_name_game_count_dict counting the slots a name fills.
get_name_game_count_dict_per_slot(gs) ==
    DictOf([name \in get_names(gs) |->
              Ok(Cardinality({<<i, j>> \in (1..Len(gs)) \X (1..MaxObjects) :
                                /\ j <= Len(gs[i].players)
                                /\ gs[i].players[j].name = name}))])

get_name_game_count_dict(gs) ==
    DictOf([name \in get_names(gs) |->
              Ok(sum1([i \in 1..Len(gs) |-> In(name, Game_names(gs[i]))]))])

get_faction_game_count_dict(gs) ==
    DictOf([faction \in get_factions(gs) |->
              Ok(sum1([i \in 1..Len(gs) |-> In(faction, Game_factions(gs[i]))]))])

get_name_win_count_dict(gs) ==
    DictOf([name \in get_names(gs) |-> get_num_wins(gs, name)])

get_faction_win_count_dict(gs) ==
    DictOf([faction \in get_factions(gs) |-> get_num_faction_wins(gs, faction)])

\* The body shared by the two rate functions once the key list and the two
\* count dicts (or the exception raised on the way) are at hand.
RelativeDict(keys, game_count, win_count) ==
    IF ~game_count.ok THEN game_count
    ELSE IF ~win_count.ok THEN win_count
    ELSE IF ~(\A k \in keys : k \in DOMAIN game_count.val)
         THEN Raise("AssertionError")
    ELSE IF ~(\A k \in keys : k \in DOMAIN win_count.val)
         THEN Raise("AssertionError")
    ELSE DictOf([k \in keys |-> TrueDiv(win_count.val[k], game_count.val[k])])

get_relative_name_win_count_dict(gs) ==
    RelativeDict(get_names(gs), get_name_game_count_dict(gs),
                 get_name_win_count_dict(gs))

get_relative_faction_win_count_dict(gs) ==
    RelativeDict(get_factions(gs), get_faction_game_count_dict(gs),
                 get_faction_win_count_dict(gs))

---------------------------------------------------------------------------
(* The state machine: the calls a user of the module can make *)

Init ==
    /\ games \in GameListsWithin(MaxObjects)
    /\ called = "none"
    /\ arg = <<>>
    /\ outcome = [f \in {"none"} |-> NotCalled]

\* A call of f with argument a on the input produces r and leaves the input
\* as it is: no function of the module assigns to its argument.  A call is
\* made on the input as given; a call made after another one would see the
\* same input and produce the same state.
Returns(f, a, r) ==
    /\ called = "none"
    /\ called' = f
    /\ arg' = a
    /\ outcome' = [g \in {f} |-> r]
    /\ UNCHANGED games

Call_names == \E i \in 1..Len(games) :
    Returns("names", <<i>>, Ok(Game_names(games[i])))

Call_factions == \E i \in 1..Len(games) :
    Returns("factions", <<i>>, Ok(Game_factions(games[i])))

Call_winner == \E i \in 1..Len(games) :
    Returns("winner", <<i>>, Game_winner(games[i]))

Call_looser == \E i \in 1..Len(games) :
    Returns("looser", <<i>>, Ok(Game_looser(games[i])))

Call_winner_name == \E i \in 1..Len(games) :
    Returns("winner_name", <<i>>, Game_winner_name(games[i]))

Call_looser_name == \E i \in 1..Len(games) :
    Returns("looser_name", <<i>>, Ok(Game_looser_name(games[i])))

Call_winner_faction == \E i \in 1..Len(games) :
    Returns("winner_faction", <<i>>, Game_winner_faction(games[i]))

Call_looser_faction == \E i \in 1..Len(games) :
    Returns("looser_faction", <<i>>, Ok(Game_looser_faction(games[i])))

Call_get_names == \E xs \in ListsOfSet(get_names(games)) :
    Returns("get_names", <<>>, Ok(xs))

Call_get_factions == \E xs \in ListsOfSet(get_factions(games)) :
    Returns("get_factions", <<>>, Ok(xs))

Call_get_num_wins == \E name \in Names :
    Returns("get_num_wins", <<name>>, get_num_wins(games, name))

\* The six map functions, by name.
Apply(f, gs) ==
    CASE f = "get_name_game_count_dict" -> get_name_game_count_dict(gs)
      [] f = "get_faction_game_count_dict" -> get_faction_game_count_dict(gs)
      [] f = "get_name_win_count_dict" -> get_name_win_count_dict(gs)
      [] f = "get_faction_win_count_dict" -> get_faction_win_count_dict(gs)
      [] f = "get_relative_name_win_count_dict" ->
             get_relative_name_win_count_dict(gs)
      [] f = "get_relative_faction_win_count_dict" ->
             get_relative_faction_win_count_dict(gs)

Call_get_name_game_count_dict ==
    Returns("get_name_game_count_dict", <<>>, get_name_game_count_dict(games))

Call_get_faction_game_count_dict ==
    Returns("get_faction_game_count_dict", <<>>,
            get_faction_game_count_dict(games))

Call_get_name_win_count_dict ==
    Returns("get_name_win_count_dict", <<>>, get_name_win_count_dict(games))

Call_get_faction_win_count_dict ==
    Returns("get_faction_win_count_dict", <<>>,
            get_faction_win_count_dict(games))

Call_get_relative_name_win_count_dict ==
    Returns("get_relative_name_win_count_dict", <<>>,
            get_relative_name_win_count_dict(games))

Call_get_relative_faction_win_count_dict ==
    Returns("get_relative_faction_win_count_dict", <<>>,
            get_relative_faction_win_count_dict(games))

Next ==
    \/ Call_names
    \/ Call_factions
    \/ Call_winner
    \/ Call_looser
    \/ Call_winner_name
    \/ Call_looser_name
    \/ Call_winner_faction
    \/ Call_looser_faction
    \/ Call_get_names
    \/ Call_get_factions
    \/ Call_get_num_wins
    \/ Call_get_name_game_count_dict
    \/ Call_get_faction_game_count_dict
    \/ Call_get_name_win_count_dict
    \/ Call_get_faction_win_count_dict
    \/ Call_get_relative_name_win_count_dict
    \/ Call_get_relative_faction_win_count_dict

Spec == Init /\ [][Next]_vars

---------------------------------------------------------------------------
(* Vocabulary of the properties *)

NameMaps == {"get_name_game_count_dict", "get_name_win_count_dict",
             "get_relative_name_win_count_dict"}

FactionMaps == {"get_faction_game_count_dict", "get_faction_win_count_dict",
                "get_relative_faction_win_count_dict"}

GameCountMaps == {"get_name_game_count_dict", "get_faction_game_count_dict"}

WinBasedMaps == (NameMaps \cup FactionMaps) \ GameCountMaps

\* The slots of a game whose player is flagged as winner.
Flagged(game) == {j \in 1..Len(game.players) : game.players[j].is_winner}

EveryGameHasWinner == \A i \in 1..Len(games) : Flagged(games[i]) # {}

\* The names, and the factions, that fill some player slot of some game.
OccurringNames ==
    {n \in NameType :
       \E i \in 1..Len(games) : \E j \in 1..Len(games[i].players) :
          games[i].players[j].name = n}

OccurringFactions ==
    {f \in FactionType :
       \E i \in 1..Len(games) : \E j \in 1..Len(games[i].players) :
          games[i].players[j].faction = f}

\* The keys the map function f is to have on the input.
KeysOf(f) == IF f \in NameMaps THEN OccurringNames ELSE OccurringFactions

\* The games in which name n, or faction f, fills at least one slot.
GamesWithName(n) ==
    {i \in 1..Len(games) :
       \E j \in 1..Len(games[i].players) : games[i].players[j].name = n}

GamesWithFaction(f) ==
    {i \in 1..Len(games) :
       \E j \in 1..Len(games[i].players) : games[i].players[j].faction = f}

\* The first winner-flagged slot of a game that has one.
FirstFlagged(game) ==
    CHOOSE j \in Flagged(game) : \A k \in Flagged(game) : j <= k

\* The sum of the values of a dict.
RECURSIVE SumOfValues(_)
SumOfValues(d) ==
    IF DOMAIN d = {} THEN 0
    ELSE LET k == CHOOSE x \in DOMAIN d : TRUE
         IN  d[k] + SumOfValues([x \in DOMAIN d \ {k} |-> d[x]])

Permutations(n) ==
    {p \in [1..n -> 1..n] : \A a, b \in 1..n : p[a] = p[b] => a = b}

\* The game list re-ordered by p, and the list with the players of game i
\* re-ordered by p.
ReorderGames(gs, p) == [i \in 1..Len(gs) |-> gs[p[i]]]

ReorderPlayers(gs, i, p) ==
    [gs EXCEPT ![i].players = [j \in 1..Len(gs[i].players) |-> gs[i].players[p[j]]]]

---------------------------------------------------------------------------
(* Properties *)

\* C1: whenever a win-count map is returned, the win count of every key is at
\* most the games-played count of that key, by name and by faction.
C1_WinCountAtMostGameCount ==
    /\ (called = "get_name_win_count_dict" /\ ret.ok) =>
          LET gc == get_name_game_count_dict(games)
          IN  /\ gc.ok
              /\ \A n \in DOMAIN ret.val :
                    n \in DOMAIN gc.val /\ ret.val[n] <= gc.val[n]
    /\ (called = "get_faction_win_count_dict" /\ ret.ok) =>
          LET gc == get_faction_game_count_dict(games)
          IN  /\ gc.ok
              /\ \A f \in DOMAIN ret.val :
                    f \in DOMAIN gc.val /\ ret.val[f] <= gc.val[f]

\* A win-count map was returned in which one name has a win and one name
\* has fewer wins than games.
C1_Witness ==
    /\ called = "get_name_win_count_dict"
    /\ ret.ok
    /\ \E n \in DOMAIN ret.val : ret.val[n] >= 1
    /\ \E n \in DOMAIN ret.val :
          ret.val[n] < get_name_game_count_dict(games).val[n]

\* The relation between a rate map and the two count maps it is made of.
RateIsRatio(rate, wc, gc, keys) ==
    /\ rate.ok /\ wc.ok /\ gc.ok
    /\ DOMAIN rate.val = keys
    /\ \A k \in keys :
          /\ gc.val[k] # 0
          /\ rate.val[k].den > 0
          /\ rate.val[k].num * gc.val[k] = wc.val[k] * rate.val[k].den
          /\ 0 <= rate.val[k].num
          /\ rate.val[k].num <= rate.val[k].den

\* C2: on a game list in which every game has a winner, a rate map is
\* returned (no assertion fails, no denominator is zero) and holds for every
\* key exactly win count / games-played count, a value between 0 and 1.
C2_RelativeIsRatio ==
    /\ (called = "get_relative_name_win_count_dict" /\ EveryGameHasWinner) =>
          RateIsRatio(ret, get_name_win_count_dict(games),
                      get_name_game_count_dict(games), OccurringNames)
    /\ (called = "get_relative_faction_win_count_dict" /\ EveryGameHasWinner) =>
          RateIsRatio(ret, get_faction_win_count_dict(games),
                      get_faction_game_count_dict(games), OccurringFactions)

\* A rate map was returned in which a name won one of its two games.
C2_Witness ==
    /\ called = "get_relative_name_win_count_dict"
    /\ EveryGameHasWinner
    /\ ret.ok
    /\ \E n \in DOMAIN ret.val : ret.val[n] = [num |-> 1, den |-> 2]

\* C3: each of the six map functions produces, on every re-ordering of the
\* game list, the outcome it produced on the list: the same keys and values,
\* or the same failure.
C3_GameOrderIrrelevant ==
    called \in NameMaps \cup FactionMaps =>
       \A p \in Permutations(Len(games)) :
          Apply(called, ReorderGames(games, p)) = ret

\* A win-count map with a counted win was returned on a list of two
\* different games.
C3_Witness ==
    /\ called = "get_name_win_count_dict"
    /\ ret.ok
    /\ Len(games) >= 2
    /\ games[1] # games[2]
    /\ \E n \in DOMAIN ret.val : ret.val[n] >= 1

\* The outcome of the last call is the one the same function produces with
\* the players of any one game re-ordered in any way.
PlayerOrderIrrelevant ==
    \A i \in 1..Len(games) :
       \A p \in Permutations(Len(games[i].players)) :
          Apply(called, ReorderPlayers(games, i, p)) = ret

\* C4 as claimed: on any game list, whatever the number of winner-flagged
\* players per game, re-ordering the players of a game changes none of the
\* six maps.
C4_Original ==
    called \in NameMaps \cup FactionMaps => PlayerOrderIrrelevant

\* C4 as amended: re-ordering the players of a game never changes the two
\* games-played maps, and changes neither the win-count nor the win-rate
\* maps when no game has more than one winner-flagged player.
C4_Amended ==
    /\ called \in GameCountMaps => PlayerOrderIrrelevant
    /\ (/\ called \in WinBasedMaps
        /\ \A i \in 1..Len(games) : Cardinality(Flagged(games[i])) <= 1)
          => PlayerOrderIrrelevant

\* A win-count map was returned on a list with a game of two different
\* players whose only winner is in the second slot.
C4_Witness ==
    /\ called = "get_name_win_count_dict"
    /\ ret.ok
    /\ \A i \in 1..Len(games) : Cardinality(Flagged(games[i])) <= 1
    /\ \E i \in 1..Len(games) :
          /\ Len(games[i].players) = 2
          /\ games[i].players[1].name # games[i].players[2].name
          /\ Flagged(games[i]) = {2}

\* C5: the keys of every map that is returned are exactly the names (the
\* factions) that fill some player slot of the input, and on the empty game
\* list every map is returned and is empty.
C5_KeysFromInput ==
    called \in NameMaps \cup FactionMaps =>
       /\ ret.ok => DOMAIN ret.val = KeysOf(called)
       /\ games = <<>> => ret.ok /\ DOMAIN ret.val = {}

\* A games-played map with a single key was returned on a list of several
\* games and at least three player slots.
C5_Witness ==
    /\ called = "get_name_game_count_dict"
    /\ ret.ok
    /\ Cardinality(DOMAIN ret.val) = 1
    /\ Len(games) = 2
    /\ Len(games[1].players) + Len(games[2].players) >= 3

\* C6: the games-played maps never fail, and hold for every name (faction)
\* of the input the number of games in which it fills at least one slot.
C6_GameCountIsRecount ==
    /\ called = "get_name_game_count_dict" =>
          /\ ret.ok
          /\ DOMAIN ret.val = OccurringNames
          /\ \A n \in OccurringNames :
                ret.val[n] = Cardinality(GamesWithName(n))
    /\ called = "get_faction_game_count_dict" =>
          /\ ret.ok
          /\ DOMAIN ret.val = OccurringFactions
          /\ \A f \in OccurringFactions :
                ret.val[f] = Cardinality(GamesWithFaction(f))

\* A games-played map was returned on a list with a game that has no winner
\* and in which one name fills both slots.
C6_Witness ==
    /\ called = "get_name_game_count_dict"
    /\ ret.ok
    /\ \E i \in 1..Len(games) :
          /\ Flagged(games[i]) = {}
          /\ Len(games[i].players) = 2
          /\ games[i].players[1].name = games[i].players[2].name
          /\ ret.val[games[i].players[1].name] = 1

\* C7: winner, winner_name and winner_faction raise on a game with no
\* winner-flagged player, and on any other game return a winner-flagged
\* player of that game (its name, its faction).
C7_WinnerAccess ==
    called \in {"winner", "winner_name", "winner_faction"} =>
       LET game == games[arg[1]]
       IN  /\ Flagged(game) = {} => ret = Raise("StopIteration")
           /\ Flagged(game) # {} =>
                 /\ ret.ok
                 /\ \E j \in Flagged(game) :
                       ret.val = CASE called = "winner" -> game.players[j]
                                   [] called = "winner_name" ->
                                        game.players[j].name
                                   [] called = "winner_faction" ->
                                        game.players[j].faction

\* winner_name raised on a game that has players and no winner.
C7_Witness ==
    /\ called = "winner_name"
    /\ ~ret.ok
    /\ games[arg[1]].players # <<>>

\* C8 as claimed: a win-based map function returns a map with every key or
\* fails, and it fails whenever some game has no winner-flagged player.
C8_Original ==
    called \in WinBasedMaps =>
       /\ ret.ok => DOMAIN ret.val = KeysOf(called)
       /\ ~EveryGameHasWinner => ~ret.ok

\* C8 as amended: a win-based map function returns a map with every key or
\* fails; it fails whenever some game has no winner-flagged player and some
\* game has a player, and returns the empty map when no game has a player.
C8_Amended ==
    called \in WinBasedMaps =>
       /\ ret.ok => DOMAIN ret.val = KeysOf(called)
       /\ (~EveryGameHasWinner /\ KeysOf(called) # {}) =>
             ret = Raise("RuntimeError")
       /\ KeysOf(called) = {} => ret.ok /\ DOMAIN ret.val = {}

\* A win-count map failed on a list with a game that has a winner and a
\* game that has none.
C8_Witness ==
    /\ called = "get_name_win_count_dict"
    /\ ~ret.ok
    /\ \E i \in 1..Len(games) : Flagged(games[i]) # {}
    /\ \E i \in 1..Len(games) : Flagged(games[i]) = {}

\* The games whose first winner-flagged player has name n, or faction f.
GamesWonByName(n) ==
    {i \in 1..Len(games) : games[i].players[FirstFlagged(games[i])].name = n}

GamesWonByFaction(f) ==
    {i \in 1..Len(games) : games[i].players[FirstFlagged(games[i])].faction = f}

\* C9: on a game with two or more winner-flagged players winner returns the
\* first of them and looser none of them, so that fewer players are reported
\* than the game has; the win counts credit each game to the name and to the
\* faction of its first winner-flagged player alone.
C9_FirstWinnerCredited ==
    /\ (called = "winner" /\ Cardinality(Flagged(games[arg[1]])) >= 2) =>
          ret = Ok(games[arg[1]].players[FirstFlagged(games[arg[1]])])
    /\ (called = "looser" /\ Cardinality(Flagged(games[arg[1]])) >= 2) =>
          /\ ret.ok
          /\ \A k \in 1..Len(ret.val) : ~ret.val[k].is_winner
          /\ Len(ret.val) + 1 < Len(games[arg[1]].players)
    /\ (called = "get_num_wins" /\ EveryGameHasWinner) =>
          ret = Ok(Cardinality(GamesWonByName(arg[1])))
    /\ (called = "get_name_win_count_dict" /\ EveryGameHasWinner) =>
          /\ ret.ok
          /\ \A n \in DOMAIN ret.val :
                ret.val[n] = Cardinality(GamesWonByName(n))
    /\ (called = "get_faction_win_count_dict" /\ EveryGameHasWinner) =>
          /\ ret.ok
          /\ \A f \in DOMAIN ret.val :
                ret.val[f] = Cardinality(GamesWonByFaction(f))

\* A win-count map was returned on a list with a game of two winner-flagged
\* players of different names, the second of which is credited no win.
C9_Witness ==
    /\ called = "get_name_win_count_dict"
    /\ ret.ok
    /\ \E i \in 1..Len(games) :
          /\ Flagged(games[i]) = {1, 2}
          /\ games[i].players[1].name # games[i].players[2].name
          /\ ret.val[games[i].players[2].name] = 0

\* C10: on a game list in which every game has a winner-flagged player, the
\* values of the name win-count map, and those of the faction win-count map,
\* add up to the number of games.
C10_WinsConserved ==
    /\ (called = "get_name_win_count_dict" /\ EveryGameHasWinner) =>
          ret.ok /\ SumOfValues(ret.val) = Len(games)
    /\ (called = "get_faction_win_count_dict" /\ EveryGameHasWinner) =>
          ret.ok /\ SumOfValues(ret.val) = Len(games)

\* A name win-count map was returned on a list of two games, one of them
\* with two winner-flagged players.
C10_Witness ==
    /\ called = "get_name_win_count_dict"
    /\ ret.ok
    /\ Len(games) = 2
    /\ \E i \in 1..Len(games) : Cardinality(Flagged(games[i])) >= 2

=============================================================================
